---- MODULE Spec2Model ----
(***************************************************************************)
(* Range-extension thunk synthesis of elf/thunks.cc, instantiated for     *)
(* E = ARM64.  The model follows create_range_extension_thunks statement  *)
(* by statement; the two parallel_for_each scans are interleaved tasks.   *)
(* Indices a, b, c, d and section numbers are 0-based as in the code;     *)
(* osec.thunks is a sequence, so the code's thunks[k] is thunks[k + 1].   *)
(***************************************************************************)
EXTENDS Integers, Sequences, FiniteSets, TLC

(* ------------------------------------------------------------------ *)
(* Target policy (ARM64)                                               *)
(* ------------------------------------------------------------------ *)

\* 1LL << 27
max_distance == 134217728

batch_size == max_distance \div 10

max_thunk_size == 102400

\* RangeExtensionThunk<E>::alignment
alignment == 4

\* E::thunk_hdr_size
thunk_hdr_size == 0

\* E::thunk_size, the size of one stub
thunk_size == 12

(* ------------------------------------------------------------------ *)
(* Bounds of the model                                                  *)
(* ------------------------------------------------------------------ *)

\* largest number of input sections in osec.members
MaxMembers == 5

\* largest number of sections in the inputs that exercise the parallel scan
MaxTasks == 3

\* the symbols of the input files
Syms == 1 .. 2

VARIABLES
    members,            \* osec.members: sh_size, p2align, rels of each section
    symtab,             \* the symbols: file, isec, plt, value, priority, sym_idx
    isec_offset,        \* m[i]->offset
    range_extn,         \* m[i]->extra.range_extn
    sym_flags,          \* sym.flags
    sym_thunk_idx,      \* sym.extra.thunk_idx
    sym_thunk_sym_idx,  \* sym.extra.thunk_sym_idx
    thunks,             \* osec.thunks: thunk_idx, offset, symbols
    sh_size,            \* osec.shdr.sh_size
    a, b, c, d, offset, \* the locals of create_range_extension_thunks
    pc,                 \* position of the sweep
    tpc, ti,            \* position of each scanner task, and its loop index i
    expect,             \* outcome of the batch under the in-order schedule
    ret                 \* a call of is_reachable on its own: target E, return value

vars == <<members, symtab, isec_offset, range_extn, sym_flags, sym_thunk_idx,
          sym_thunk_sym_idx, thunks, sh_size, a, b, c, d, offset, pc, tpc, ti,
          expect, ret>>

(* ------------------------------------------------------------------ *)
(* Helpers                                                              *)
(* ------------------------------------------------------------------ *)

\* m.size()
m_size == Cardinality(DOMAIN members)

\* 1 << p2align
Shl1(k) == 2 ^ k

align_to(val, align) ==
    IF align = 0 THEN val ELSE ((val + align - 1) \div align) * align

\* RangeExtensionThunk<E>::size()
thunk_size_of(thunk) == thunk_hdr_size + Len(thunk.symbols) * thunk_size

\* RangeExtensionThunk<E>::get_addr(idx), relative to the output section
thunk_addr(thunk, idx) == thunk.offset + thunk_hdr_size + idx * thunk_size

\* a default-constructed RangeExtensionRef
NoRef == [thunk_idx |-> -1, sym_idx |-> -1]

\* no call of is_reachable on its own is under way
NoCall == [E |-> "ARM64", called |-> FALSE, val |-> FALSE]

\* std::vector::resize on range_extn
resize(vec, n) == [k \in 1 .. n |-> IF k <= Len(vec) THEN vec[k] ELSE NoRef]

InSeq(x, seq) == \E k \in 1 .. Len(seq) : seq[k] = x

needs_thunk_rel(r) == r.r_type \in {"R_AARCH64_JUMP26", "R_AARCH64_CALL26"}

\* max_distance<E>
max_distance_of(E) == 2 ^ (IF E = "ARM64" THEN 27 ELSE IF E = "ARM32" THEN 24 ELSE 25)

\* sym.get_addr(ctx) & 1 with the section offsets read from offs
is_thumb(offs, sym) == (offs[symtab[sym].isec] + symtab[sym].value) % 2 = 1

\* is_reachable<E> with the upper end of the range included
is_reachable_E_closed(E, offs, isec, sym, rel) ==
    LET isec2 == symtab[sym].isec IN
    IF isec2 = -1 THEN FALSE
    ELSE IF symtab[sym].plt THEN FALSE
    ELSE IF offs[isec2] = -1 THEN FALSE
    ELSE IF /\ E = "ARM32"
            /\ \/ rel.r_type = "R_ARM_THM_JUMP24" /\ ~is_thumb(offs, sym)
               \/ rel.r_type = "R_ARM_JUMP24" /\ is_thumb(offs, sym)
         THEN FALSE
    ELSE LET S == offs[isec2] + symtab[sym].value
             A == rel.r_addend
             P == offs[isec] + rel.r_offset
             val == S + A - P
         IN  -max_distance_of(E) <= val /\ val <= max_distance_of(E)

\* is_reachable<E>, with every section offset read from offs
is_reachable_E(E, offs, isec, sym, rel) ==
    LET isec2 == symtab[sym].isec IN
    IF isec2 = -1 THEN FALSE
    ELSE IF symtab[sym].plt THEN FALSE
    ELSE IF offs[isec2] = -1 THEN FALSE
    ELSE IF /\ E = "ARM32"
            /\ \/ rel.r_type = "R_ARM_THM_JUMP24" /\ ~is_thumb(offs, sym)
               \/ rel.r_type = "R_ARM_JUMP24" /\ is_thumb(offs, sym)
         THEN FALSE
    ELSE LET S == offs[isec2] + symtab[sym].value
             A == rel.r_addend
             P == offs[isec] + rel.r_offset
             val == S + A - P
         IN  -max_distance_of(E) <= val /\ val < max_distance_of(E)

\* is_reachable<ARM64> without the test for a target section that has no offset yet
is_reachable_at_unplaced(offs, isec, sym, rel) ==
    LET isec2 == symtab[sym].isec IN
    IF isec2 = -1 THEN FALSE
    ELSE IF symtab[sym].plt THEN FALSE
    ELSE LET S == offs[isec2] + symtab[sym].value
             A == rel.r_addend
             P == offs[isec] + rel.r_offset
             val == S + A - P
         IN  -max_distance <= val /\ val < max_distance

\* is_reachable<ARM64>, the instance the sweep calls
is_reachable_at(offs, isec, sym, rel) == is_reachable_E("ARM64", offs, isec, sym, rel)

is_reachable(isec, sym, rel) == is_reachable_at(isec_offset, isec, sym, rel)

\* reset_thunk that clears every symbol, in the thunk or not
reset_thunk_all(thunk) ==
    [thunk_idx     |-> [s \in Syms |-> -1],
     thunk_sym_idx |-> [s \in Syms |-> -1],
     flags         |-> [s \in Syms |-> 0]]

\* reset_thunk that clears the flags and leaves the registrations
reset_thunk_keep_idx(thunk) ==
    [thunk_idx     |-> sym_thunk_idx,
     thunk_sym_idx |-> sym_thunk_sym_idx,
     flags         |-> [s \in Syms |-> IF InSeq(s, thunk.symbols) THEN 0 ELSE sym_flags[s]]]

\* reset_thunk that clears the registrations and leaves the flags
reset_thunk_keep_flags(thunk) ==
    [thunk_idx     |-> [s \in Syms |-> IF InSeq(s, thunk.symbols) THEN -1 ELSE sym_thunk_idx[s]],
     thunk_sym_idx |-> [s \in Syms |-> IF InSeq(s, thunk.symbols) THEN -1 ELSE sym_thunk_sym_idx[s]],
     flags         |-> sym_flags]

\* reset_thunk: the symbols' fields after the loop over thunk.symbols
reset_thunk(thunk) ==
    [thunk_idx     |-> [s \in Syms |-> IF InSeq(s, thunk.symbols) THEN -1 ELSE sym_thunk_idx[s]],
     thunk_sym_idx |-> [s \in Syms |-> IF InSeq(s, thunk.symbols) THEN -1 ELSE sym_thunk_sym_idx[s]],
     flags         |-> [s \in Syms |-> IF InSeq(s, thunk.symbols) THEN 0 ELSE sym_flags[s]]]

\* the comparator of the sort of thunk.symbols
sym_less(x, y) ==
    \/ symtab[x].priority < symtab[y].priority
    \/ /\ symtab[x].priority = symtab[y].priority
       /\ symtab[x].sym_idx < symtab[y].sym_idx

RECURSIVE insert_sorted(_, _)
insert_sorted(x, seq) ==
    IF seq = <<>> THEN <<x>>
    ELSE IF sym_less(x, Head(seq)) THEN <<x>> \o seq
    ELSE <<Head(seq)>> \o insert_sorted(x, Tail(seq))

RECURSIVE sort_symbols(_)
sort_symbols(seq) ==
    IF seq = <<>> THEN <<>>
    ELSE insert_sorted(Head(seq), sort_symbols(Tail(seq)))

\* thunk.symbols left in the order of the appends
unsorted_symbols(symbols) == symbols

\* thunk.symbols after the sort of lines 235-238
sorted_symbols(symbols) == sort_symbols(symbols)

\* position of x in seq, counted from 0
RECURSIVE index_of(_, _)
index_of(x, seq) == IF Head(seq) = x THEN 0 ELSE 1 + index_of(x, Tail(seq))

\* scan_rel without the skip of the relocations within reach
scan_rel_no_reach(flags, rx, isec, i, cur_thunk_idx) ==
    LET rel == members[isec].rels[i + 1]
        sym == rel.r_sym
    IN  IF ~needs_thunk_rel(rel) THEN [flags |-> flags, rx |-> rx, won |-> FALSE]
        ELSE IF ~symtab[sym].file THEN [flags |-> flags, rx |-> rx, won |-> FALSE]
        ELSE IF sym_thunk_idx[sym] # -1
             THEN [flags |-> flags,
                   rx |-> [rx EXCEPT ![i + 1] = [thunk_idx |-> sym_thunk_idx[sym],
                                                 sym_idx |-> sym_thunk_sym_idx[sym]]],
                   won |-> FALSE]
        ELSE [flags |-> [flags EXCEPT ![sym] = -1],
              rx |-> [rx EXCEPT ![i + 1] = [thunk_idx |-> cur_thunk_idx, sym_idx |-> -1]],
              won |-> flags[sym] = 0]

\* scan_rel without the reuse of an earlier registration (lines 149-153)
scan_rel_no_reuse(flags, rx, isec, i, cur_thunk_idx) ==
    LET rel == members[isec].rels[i + 1]
        sym == rel.r_sym
    IN  IF ~needs_thunk_rel(rel) THEN [flags |-> flags, rx |-> rx, won |-> FALSE]
        ELSE IF ~symtab[sym].file THEN [flags |-> flags, rx |-> rx, won |-> FALSE]
        ELSE IF is_reachable(isec, sym, rel) THEN [flags |-> flags, rx |-> rx, won |-> FALSE]
        ELSE [flags |-> [flags EXCEPT ![sym] = -1],
              rx |-> [rx EXCEPT ![i + 1] = [thunk_idx |-> cur_thunk_idx, sym_idx |-> -1]],
              won |-> flags[sym] = 0]

\* scan_rel that appends whatever the exchange on sym.flags returned
scan_rel_always_push(flags, rx, isec, i, cur_thunk_idx) ==
    LET rel == members[isec].rels[i + 1]
        sym == rel.r_sym
    IN  IF ~needs_thunk_rel(rel) THEN [flags |-> flags, rx |-> rx, won |-> FALSE]
        ELSE IF ~symtab[sym].file THEN [flags |-> flags, rx |-> rx, won |-> FALSE]
        ELSE IF is_reachable(isec, sym, rel) THEN [flags |-> flags, rx |-> rx, won |-> FALSE]
        ELSE IF sym_thunk_idx[sym] # -1
             THEN [flags |-> flags,
                   rx |-> [rx EXCEPT ![i + 1] = [thunk_idx |-> sym_thunk_idx[sym],
                                                 sym_idx |-> sym_thunk_sym_idx[sym]]],
                   won |-> FALSE]
        ELSE [flags |-> [flags EXCEPT ![sym] = -1],
              rx |-> [rx EXCEPT ![i + 1] = [thunk_idx |-> cur_thunk_idx, sym_idx |-> -1]],
              won |-> TRUE]

\* One pass of the body of scan_rels' loop up to the exchange on sym.flags:
\* the section's range_extn, the flags, and whether the task goes on to append.
scan_rel(flags, rx, isec, i, cur_thunk_idx) ==
    LET rel == members[isec].rels[i + 1]
        sym == rel.r_sym
    IN  IF ~needs_thunk_rel(rel) THEN [flags |-> flags, rx |-> rx, won |-> FALSE]
        ELSE IF ~symtab[sym].file THEN [flags |-> flags, rx |-> rx, won |-> FALSE]
        ELSE IF is_reachable(isec, sym, rel) THEN [flags |-> flags, rx |-> rx, won |-> FALSE]
        ELSE IF sym_thunk_idx[sym] # -1
             THEN [flags |-> flags,
                   rx |-> [rx EXCEPT ![i + 1] = [thunk_idx |-> sym_thunk_idx[sym],
                                                 sym_idx |-> sym_thunk_sym_idx[sym]]],
                   won |-> FALSE]
        ELSE [flags |-> [flags EXCEPT ![sym] = -1],
              rx |-> [rx EXCEPT ![i + 1] = [thunk_idx |-> cur_thunk_idx, sym_idx |-> -1]],
              won |-> flags[sym] = 0]

\* a second scan that fills nothing in
fix_sym_idx_none(rx, isec, cur_thunk_idx, tsidx) == rx

\* The second scan of one section: fill sym_idx of the entries of this thunk.
fix_sym_idx(rx, isec, cur_thunk_idx, tsidx) ==
    [k \in 1 .. Len(rx) |->
        IF rx[k].thunk_idx = cur_thunk_idx
        THEN [rx[k] EXCEPT !.sym_idx = tsidx[members[isec].rels[k].r_sym]]
        ELSE rx[k]]

\* a c-extension that leaves the batch empty
extend_c_no_step(c0) == c0 - 1

\* The end of the c-extension loop started at c0.
RECURSIVE extend_c(_)
extend_c(c0) ==
    IF c0 < m_size /\
       isec_offset[c0] + members[c0].sh_size < isec_offset[b] + batch_size
    THEN extend_c(c0 + 1)
    ELSE c0

\* the condition of the d-extension loop
extend_d_cond ==
    /\ d < m_size
    /\ align_to(offset, Shl1(members[d].p2align)) + members[d].sh_size + max_thunk_size
         < isec_offset[b] + max_distance

\* the condition of the retirement loop
retire_cond ==
    LET c_offset == IF c = m_size THEN offset ELSE isec_offset[c] IN
    /\ a < Len(thunks)
    /\ thunks[a + 1].offset + max_distance < c_offset

(* ------------------------------------------------------------------ *)
(* The batch under the in-order schedule: the scanner tasks run one     *)
(* after the other, each to completion.                                 *)
(* ------------------------------------------------------------------ *)

\* the relocation at index i of isec, scanned in state st
seq_scan_rel(st, isec, i, cur) ==
    LET r == scan_rel(st.flags, st.rx[isec], isec, i, cur)
        sym == members[isec].rels[i + 1].r_sym
    IN  [flags   |-> r.flags,
         rx      |-> [st.rx EXCEPT ![isec] = r.rx],
         symbols |-> IF r.won THEN Append(st.symbols, sym) ELSE st.symbols]

\* the loop of scan_rels from index i on; the state is bound once per turn
RECURSIVE seq_scan_rels(_, _, _, _)
seq_scan_rels(st, isec, i, cur) ==
    IF i >= Len(members[isec].rels) THEN st
    ELSE CHOOSE out \in {seq_scan_rels(seq_scan_rel(s0, isec, i, cur), isec, i + 1, cur) :
                            s0 \in {st}} : TRUE

\* scan_rels on the sections isec .. last - 1, one after the other
RECURSIVE seq_scan_secs(_, _, _, _)
seq_scan_secs(st, isec, last, cur) ==
    IF isec >= last THEN st
    ELSE CHOOSE out \in
             {seq_scan_secs(
                  seq_scan_rels([s0 EXCEPT !.rx[isec] = resize(s0.rx[isec], Len(members[isec].rels))],
                                isec, 0, cur),
                  isec + 1, last, cur) : s0 \in {st}} : TRUE

\* slot assignment of the freeze step
assign_thunk_idx(symbols, cur, tidx) ==
    [s \in Syms |-> IF InSeq(s, symbols) THEN cur ELSE tidx[s]]

\* a slot assignment that gives every symbol of the thunk slot 0
assign_thunk_sym_idx_zero(symbols, tsidx) ==
    [s \in Syms |-> IF InSeq(s, symbols) THEN 0 ELSE tsidx[s]]

assign_thunk_sym_idx(symbols, tsidx) ==
    [s \in Syms |-> IF InSeq(s, symbols) THEN index_of(s, symbols) ELSE tsidx[s]]

\* the freeze and the second scan of the batch whose first scan ended in st
frozen_batch(st, sorted, off0) ==
    LET cur == Len(thunks)
        tsidx == assign_thunk_sym_idx(sorted, sym_thunk_sym_idx)
    IN  [thunk_idx |-> cur,
         thunk_offset |-> off0,
         symbols |-> sorted,
         flags   |-> st.flags,
         tidx    |-> assign_thunk_idx(sorted, cur, sym_thunk_idx),
         tsidx   |-> tsidx,
         rx      |-> [s \in DOMAIN members |->
                         IF b <= s /\ s < c THEN fix_sym_idx(st.rx[s], s, cur, tsidx)
                         ELSE st.rx[s]],
         offset  |-> off0 + thunk_hdr_size + Len(sorted) * thunk_size]

in_order_batch(off0) ==
    CHOOSE out \in
        {frozen_batch(st, sorted_symbols(st.symbols), off0) :
            st \in {seq_scan_secs([flags |-> sym_flags, rx |-> range_extn, symbols |-> <<>>],
                                  b, c, Len(thunks))}} : TRUE

(* ------------------------------------------------------------------ *)
(* Inputs                                                               *)
(* ------------------------------------------------------------------ *)

\* (sh_size, p2align) of the input sections: small, 60 MiB + 2, and one as
\* large as the branch reach
SecKinds ==
    { [sh_size |-> 6, p2align |-> 3],
      [sh_size |-> 62914562, p2align |-> 1],
      [sh_size |-> max_distance, p2align |-> 2] }

Rel(sym, type, off) ==
    [r_sym |-> sym, r_type |-> type, r_offset |-> off, r_addend |-> 0]

\* a symbol of a file of the link whose section is in another output section
ExternSym(s) ==
    [file |-> TRUE, isec |-> -1, plt |-> FALSE, value |-> 0,
     priority |-> 2 + (s % 2), sym_idx |-> 5 - s]

\* the definitions symbol 1 takes in a layout of n members: extern, defined in
\* the first member, defined in the last member
Sym1Choices(n) ==
    {ExternSym(1)}
    \cup (IF n = 0 THEN {}
          ELSE {[ExternSym(1) EXCEPT !.isec = 0],
                [ExternSym(1) EXCEPT !.isec = n - 1, !.value = 4]})

\* the definitions the symbols take in the inputs of the parallel scan: symbol 1
\* extern or defined in the first member with a PLT entry, symbol 2 extern or
\* undefined
ParallelSymtabs ==
    { [s \in Syms |-> IF s = 1 THEN s1 ELSE s2] :
        s1 \in {ExternSym(1), [ExternSym(1) EXCEPT !.isec = 0, !.plt = TRUE]},
        s2 \in {ExternSym(2), [ExternSym(2) EXCEPT !.file = FALSE]} }

\* the relocations of a calling section of size sz: a small section holds one
\* call to symbol 1; a large one a data relocation, a call to symbol 1 from its
\* start and a jump from its end, to symbol 2 when symbol 1 is extern and to
\* symbol 1 otherwise
CallerRels(sz, s1) ==
    IF sz < 8 THEN <<Rel(1, "R_AARCH64_CALL26", 0)>>
    ELSE <<Rel(2, "R_AARCH64_ABS64", 0),
           Rel(1, "R_AARCH64_CALL26", 0),
           Rel(IF s1.isec = -1 THEN 2 ELSE 1, "R_AARCH64_JUMP26", sz - 2)>>

\* the relocation lists of the inputs that exercise the parallel scan
CallLists ==
    { <<>>,
      <<Rel(1, "R_AARCH64_CALL26", 0)>>,
      <<Rel(2, "R_AARCH64_CALL26", 0)>>,
      <<Rel(1, "R_AARCH64_CALL26", 0), Rel(2, "R_AARCH64_JUMP26", 4)>>,
      <<Rel(2, "R_AARCH64_CALL26", 0), Rel(1, "R_AARCH64_JUMP26", 4)>> }

\* any layout of up to MaxMembers sections, whose members from index first on
\* call symbol 1
InitInputsLayout ==
    \E n \in 0 .. MaxMembers :
    \E kinds \in [0 .. n - 1 -> SecKinds] :
    \E first \in (IF n = 0 THEN {0} ELSE 0 .. n - 1) :
    \E s1 \in Sym1Choices(n) :
        /\ members = [i \in 0 .. n - 1 |->
                         [sh_size |-> kinds[i].sh_size,
                          p2align |-> kinds[i].p2align,
                          rels    |-> IF i >= first THEN CallerRels(kinds[i].sh_size, s1)
                                      ELSE <<>>]]
        /\ symtab = [s \in Syms |-> IF s = 1 THEN s1 ELSE ExternSym(s)]

\* two to MaxTasks small sections, all in one batch, with any relocation lists
InitInputsParallel ==
    \E n \in 2 .. MaxTasks :
    \E lists \in [0 .. n - 1 -> CallLists] :
    \E syms \in ParallelSymtabs :
        /\ members = [i \in 0 .. n - 1 |->
                         [sh_size |-> 6, p2align |-> 3, rels |-> lists[i]]]
        /\ symtab = syms

Init ==
    /\ (InitInputsLayout \/ InitInputsParallel)
    /\ isec_offset = [i \in DOMAIN members |-> -1]
    /\ range_extn = [i \in DOMAIN members |-> <<>>]
    /\ sym_flags = [s \in Syms |-> 0]
    /\ sym_thunk_idx = [s \in Syms |-> -1]
    /\ sym_thunk_sym_idx = [s \in Syms |-> -1]
    /\ thunks = <<>>
    /\ sh_size = 0
    /\ a = 0 /\ b = 0 /\ c = 0 /\ d = 0 /\ offset = 0
    /\ pc = "start"
    /\ tpc = [i \in DOMAIN members |-> "idle"]
    /\ ti = [i \in DOMAIN members |-> 0]
    /\ expect = <<>>
    /\ ret = NoCall

(* ------------------------------------------------------------------ *)
(* The sweep                                                            *)
(* ------------------------------------------------------------------ *)

\* lines 169-189: the early return, the dummy offsets, the four indices
Start ==
    /\ pc = "start"
    /\ IF m_size = 0
       THEN /\ pc' = "returned"
            /\ UNCHANGED isec_offset
       ELSE /\ pc' = "extend_d"
            /\ isec_offset' = [i \in DOMAIN members |-> IF i = 0 THEN 0 ELSE -1]
    /\ a' = 0 /\ b' = 0 /\ c' = 0 /\ d' = 0 /\ offset' = 0
    /\ UNCHANGED <<ret, members, symtab, range_extn, sym_flags, sym_thunk_idx,
                   sym_thunk_sym_idx, thunks, sh_size, tpc, ti, expect>>

\* the d-extension loop without the d++ of line 199
ExtendD_no_advance ==
    /\ pc = "extend_d"
    /\ IF extend_d_cond
       THEN /\ offset' = align_to(offset, Shl1(members[d].p2align)) + members[d].sh_size
            /\ isec_offset' = [isec_offset EXCEPT
                                 ![d] = align_to(offset, Shl1(members[d].p2align))]
            /\ d' = d
            /\ pc' = pc
       ELSE /\ pc' = "extend_c"
            /\ UNCHANGED <<offset, isec_offset, d>>
    /\ UNCHANGED <<ret, members, symtab, range_extn, sym_flags, sym_thunk_idx,
                   sym_thunk_sym_idx, thunks, sh_size, a, b, c, tpc, ti, expect>>

\* lines 193-200: one turn of the d-extension loop, or its exit
ExtendD ==
    /\ pc = "extend_d"
    /\ IF extend_d_cond
       THEN /\ offset' = align_to(offset, Shl1(members[d].p2align)) + members[d].sh_size
            /\ isec_offset' = [isec_offset EXCEPT
                                 ![d] = align_to(offset, Shl1(members[d].p2align))]
            /\ d' = d + 1
            /\ pc' = pc
       ELSE /\ pc' = "extend_c"
            /\ UNCHANGED <<offset, isec_offset, d>>
    /\ UNCHANGED <<ret, members, symtab, range_extn, sym_flags, sym_thunk_idx,
                   sym_thunk_sym_idx, thunks, sh_size, a, b, c, tpc, ti, expect>>

\* lines 205-208
ExtendC ==
    /\ pc = "extend_c"
    /\ c' = extend_c(b + 1)
    /\ pc' = "retire"
    /\ UNCHANGED <<ret, members, symtab, isec_offset, range_extn, sym_flags, sym_thunk_idx,
                   sym_thunk_sym_idx, thunks, sh_size, a, b, d, offset, tpc, ti, expect>>

\* lines 211-214: one turn of the retirement loop, or its exit
RetireThunk ==
    /\ pc = "retire"
    /\ IF retire_cond
       THEN /\ sym_thunk_idx' = reset_thunk(thunks[a + 1]).thunk_idx
            /\ sym_thunk_sym_idx' = reset_thunk(thunks[a + 1]).thunk_sym_idx
            /\ sym_flags' = reset_thunk(thunks[a + 1]).flags
            /\ a' = a + 1
            /\ pc' = pc
       ELSE /\ pc' = "alloc"
            /\ UNCHANGED <<sym_thunk_idx, sym_thunk_sym_idx, sym_flags, a>>
    /\ UNCHANGED <<ret, members, symtab, isec_offset, range_extn, thunks, sh_size,
                   b, c, d, offset, tpc, ti, expect>>

\* the thunk of lines 217-222 placed at the running offset as it is
new_thunk_unaligned ==
    [thunk_idx |-> Len(thunks),
     offset    |-> offset,
     symbols   |-> <<>>]

\* the thunk of lines 217-222
new_thunk ==
    [thunk_idx |-> Len(thunks),
     offset    |-> align_to(offset, alignment),
     symbols   |-> <<>>]

\* lines 217-225: allocate the thunk and fork the scanner tasks of m[b..c)
AllocThunk ==
    /\ pc = "alloc"
    /\ thunks' = Append(thunks, new_thunk)
    /\ offset' = new_thunk.offset
    /\ tpc' = [i \in DOMAIN members |-> IF b <= i /\ i < c THEN "scan" ELSE "idle"]
    /\ ti' = [i \in DOMAIN members |-> 0]
    /\ expect' = in_order_batch(new_thunk.offset)
    /\ pc' = "scan"
    /\ UNCHANGED <<ret, members, symtab, isec_offset, range_extn, sym_flags, sym_thunk_idx,
                   sym_thunk_sym_idx, sh_size, a, b, c, d>>

\* where a task goes after the relocation at index i
after_rel(isec, i) ==
    IF i + 1 >= Len(members[isec].rels) THEN "done" ELSE "scan"

\* scan_rels, lines 129-160: the resize on entry and one relocation, up to
\* and including the exchange on sym.flags
ScanRel(isec) ==
    /\ pc = "scan"
    /\ tpc[isec] = "scan"
    /\ LET rx0 == IF ti[isec] = 0
                  THEN resize(range_extn[isec], Len(members[isec].rels))
                  ELSE range_extn[isec]
       IN  IF Len(members[isec].rels) = 0
           THEN /\ range_extn' = [range_extn EXCEPT ![isec] = rx0]
                /\ tpc' = [tpc EXCEPT ![isec] = "done"]
                /\ UNCHANGED <<sym_flags, ti>>
           ELSE LET r == scan_rel(sym_flags, rx0, isec, ti[isec], Len(thunks) - 1) IN
                /\ range_extn' = [range_extn EXCEPT ![isec] = r.rx]
                /\ sym_flags' = r.flags
                /\ IF r.won
                   THEN /\ tpc' = [tpc EXCEPT ![isec] = "push"]
                        /\ UNCHANGED ti
                   ELSE /\ tpc' = [tpc EXCEPT ![isec] = after_rel(isec, ti[isec])]
                        /\ ti' = [ti EXCEPT ![isec] = ti[isec] + 1]
    /\ UNCHANGED <<ret, members, symtab, isec_offset, sym_thunk_idx, sym_thunk_sym_idx,
                   thunks, sh_size, a, b, c, d, offset, pc, expect>>

\* thunk.symbols after push_back(&sym)
push_back(symbols, sym) == Append(symbols, sym)

\* scan_rels, lines 161-162: the append under thunk.mu
PushSym(isec) ==
    /\ pc = "scan"
    /\ tpc[isec] = "push"
    /\ thunks' = [thunks EXCEPT ![Len(thunks)].symbols =
                     push_back(@, members[isec].rels[ti[isec] + 1].r_sym)]
    /\ tpc' = [tpc EXCEPT ![isec] = after_rel(isec, ti[isec])]
    /\ ti' = [ti EXCEPT ![isec] = ti[isec] + 1]
    /\ UNCHANGED <<ret, members, symtab, isec_offset, range_extn, sym_flags, sym_thunk_idx,
                   sym_thunk_sym_idx, sh_size, a, b, c, d, offset, pc, expect>>

\* lines 225-244: the join of the first scan, the size, the sort, the slots
Freeze ==
    /\ pc = "scan"
    /\ \A i \in DOMAIN members : tpc[i] \in {"idle", "done"}
    /\ LET thunk == thunks[Len(thunks)]
           sorted == sorted_symbols(thunk.symbols)
       IN  /\ offset' = offset + thunk_size_of(thunk)
           /\ thunks' = [thunks EXCEPT ![Len(thunks)].symbols = sorted]
           /\ sym_thunk_idx' = assign_thunk_idx(sorted, thunk.thunk_idx, sym_thunk_idx)
           /\ sym_thunk_sym_idx' = assign_thunk_sym_idx(sorted, sym_thunk_sym_idx)
    /\ pc' = "scan2"
    /\ UNCHANGED <<ret, members, symtab, isec_offset, range_extn, sym_flags, sh_size,
                   a, b, c, d, tpc, ti, expect>>

\* lines 247-255: the second scan of one section
Scan2(isec) ==
    /\ pc = "scan2"
    /\ tpc[isec] = "done"
    /\ range_extn' = [range_extn EXCEPT ![isec] =
                         fix_sym_idx(@, isec, thunks[Len(thunks)].thunk_idx,
                                     sym_thunk_sym_idx)]
    /\ tpc' = [tpc EXCEPT ![isec] = "fixed"]
    /\ UNCHANGED <<ret, members, symtab, isec_offset, sym_flags, sym_thunk_idx,
                   sym_thunk_sym_idx, thunks, sh_size, a, b, c, d, offset, pc, ti,
                   expect>>

\* lines 255-258 and 191: the join of the second scan, b = c, the loop test
Advance ==
    /\ pc = "scan2"
    /\ \A i \in DOMAIN members : tpc[i] \in {"idle", "fixed"}
    /\ b' = c
    /\ tpc' = [i \in DOMAIN members |-> "idle"]
    /\ pc' = IF c < m_size THEN "extend_d" ELSE "final_retire"
    /\ UNCHANGED <<ret, members, symtab, isec_offset, range_extn, sym_flags, sym_thunk_idx,
                   sym_thunk_sym_idx, thunks, sh_size, a, c, d, offset, ti, expect>>

\* lines 261-262: one turn of the final reset loop
FinalRetire ==
    /\ pc = "final_retire"
    /\ a < Len(thunks)
    /\ sym_thunk_idx' = reset_thunk(thunks[a + 1]).thunk_idx
    /\ sym_thunk_sym_idx' = reset_thunk(thunks[a + 1]).thunk_sym_idx
    /\ sym_flags' = reset_thunk(thunks[a + 1]).flags
    /\ a' = a + 1
    /\ UNCHANGED <<ret, members, symtab, isec_offset, range_extn, thunks, sh_size,
                   b, c, d, offset, pc, tpc, ti, expect>>

\* line 264
Finish ==
    /\ pc = "final_retire"
    /\ a >= Len(thunks)
    /\ sh_size' = offset
    /\ pc' = "done"
    /\ UNCHANGED <<ret, members, symtab, isec_offset, range_extn, sym_flags, sym_thunk_idx,
                   sym_thunk_sym_idx, thunks, a, b, c, d, offset, tpc, ti, expect>>

Next ==
    \/ Start
    \/ ExtendD
    \/ ExtendC
    \/ RetireThunk
    \/ AllocThunk
    \/ \E isec \in DOMAIN members : ScanRel(isec)
    \/ \E isec \in DOMAIN members : PushSym(isec)
    \/ Freeze
    \/ \E isec \in DOMAIN members : Scan2(isec)
    \/ Advance
    \/ FinalRetire
    \/ Finish

Spec == Init /\ [][Next]_vars

\* The sweep is sequential code and tbb::parallel_for_each returns once every
\* task has run to its end: a step that can be taken is taken.
FairSpec == Spec /\ WF_vars(Next)

(* ------------------------------------------------------------------ *)
(* is_reachable on its own                                              *)
(* ------------------------------------------------------------------ *)

\* the branch relocation types of a target
BranchTypes(E) ==
    IF E = "ARM32" THEN {"R_ARM_JUMP24", "R_ARM_THM_JUMP24", "R_ARM_CALL"}
    ELSE {"R_AARCH64_JUMP26", "R_AARCH64_CALL26"}

\* A call is_reachable(ctx, isec, sym, rel) with isec = m[0], its only
\* relocation rel and sym = symbol 1: the target, the offsets of the caller and
\* of the symbol's section, the symbol (in another output section, in m[0], in
\* m[1]; with or without PLT; ARM or Thumb address) and the relocation are any
\* of the values around the ends of the branch range.
ReachInit ==
    \E E \in {"ARM64", "ARM32"} :
    \E caller_offset \in {0, max_distance_of(E)} :
    \E target_offset \in {-1, 0, max_distance_of(E)} :
    \E target \in {-1, 0, 1} :
    \E plt \in BOOLEAN :
    \E value \in {0, 1, 4} :
    \E addend \in {-4, -1, 0} :
    \E r_offset \in {0, 4} :
    \E type \in BranchTypes(E) :
        /\ target = 0 => target_offset = caller_offset
        /\ members = [i \in 0 .. 1 |->
                         [sh_size |-> 8, p2align |-> 2,
                          rels |-> IF i = 0
                                   THEN <<[r_sym |-> 1, r_type |-> type,
                                           r_offset |-> r_offset, r_addend |-> addend]>>
                                   ELSE <<>>]]
        /\ symtab = [s \in Syms |->
                        IF s = 1
                        THEN [ExternSym(1) EXCEPT !.isec = target, !.plt = plt,
                                                  !.value = value]
                        ELSE ExternSym(s)]
        /\ isec_offset = [i \in 0 .. 1 |-> IF i = 0 THEN caller_offset ELSE target_offset]
        /\ ret = [E |-> E, called |-> FALSE, val |-> FALSE]
        /\ range_extn = [i \in 0 .. 1 |-> <<>>]
        /\ sym_flags = [s \in Syms |-> 0]
        /\ sym_thunk_idx = [s \in Syms |-> -1]
        /\ sym_thunk_sym_idx = [s \in Syms |-> -1]
        /\ thunks = <<>>
        /\ sh_size = 0
        /\ a = 0 /\ b = 0 /\ c = 0 /\ d = 0 /\ offset = 0
        /\ pc = "is_reachable"
        /\ tpc = [i \in 0 .. 1 |-> "idle"]
        /\ ti = [i \in 0 .. 1 |-> 0]
        /\ expect = <<>>

\* lines 77-114: the call and its return value
IsReachableCall ==
    /\ pc = "is_reachable"
    /\ ret' = [ret EXCEPT !.called = TRUE,
                          !.val = is_reachable_E(ret.E, isec_offset, 0,
                                                 members[0].rels[1].r_sym,
                                                 members[0].rels[1])]
    /\ pc' = "is_reachable_ret"
    /\ UNCHANGED <<members, symtab, isec_offset, range_extn, sym_flags, sym_thunk_idx,
                   sym_thunk_sym_idx, thunks, sh_size, a, b, c, d, offset, tpc, ti,
                   expect>>

ReachNext == IsReachableCall

ReachSpec == ReachInit /\ [][ReachNext]_vars

(* ------------------------------------------------------------------ *)
(* Properties                                                           *)
(* ------------------------------------------------------------------ *)

\* the sweep has returned (line 265)
Done == pc = "done"

\* the relocation slots of the member sections
RelSlots == UNION {{<<s, k>> : k \in 1 .. Len(members[s].rels)} : s \in DOMAIN members}

\* the relocation of a slot, its entry in range_extn, and its site
RelOf(sk) == members[sk[1]].rels[sk[2]]

RefOf(sk) == range_extn[sk[1]][sk[2]]

SiteOf(sk) == isec_offset[sk[1]] + RelOf(sk).r_offset

\* a call or jump to a defined symbol
IsCall(sk) == needs_thunk_rel(RelOf(sk)) /\ symtab[RelOf(sk).r_sym].file

InBranchRange(val) == -max_distance <= val /\ val < max_distance

\* the d-extension placed every member
AllPlaced == d = m_size

\* C1: when the sweep returns every member section has an assigned offset
\* (not -1) that is a multiple of 2^p2align.
C1_AllAssignedAligned ==
    Done => \A s \in DOMAIN members :
                /\ isec_offset[s] # -1
                /\ align_to(isec_offset[s], Shl1(members[s].p2align)) = isec_offset[s]

\* C2: after the sweep every relocation routed through a thunk is within
\* [-max_distance, max_distance) of its stub in that thunk.
C2_ThunkInRange ==
    Done => \A sk \in RelSlots :
                RefOf(sk).thunk_idx # -1 =>
                    InBranchRange(thunk_addr(thunks[RefOf(sk).thunk_idx + 1], RefOf(sk).sym_idx)
                                  - SiteOf(sk))

\* C3: after the sweep every call or jump to a defined symbol that the scanner
\* left direct is in branch range when S + A - P is recomputed from the final
\* section offsets.
C3_DirectStaysReachable ==
    Done => \A sk \in RelSlots :
                (IsCall(sk) /\ RefOf(sk).thunk_idx = -1) =>
                    /\ symtab[RelOf(sk).r_sym].isec # -1
                    /\ InBranchRange(isec_offset[symtab[RelOf(sk).r_sym].isec]
                                     + symtab[RelOf(sk).r_sym].value
                                     + RelOf(sk).r_addend - SiteOf(sk))

C3_Witness ==
    /\ Done
    /\ AllPlaced
    /\ \E sk \in RelSlots :
          /\ IsCall(sk) /\ RefOf(sk).thunk_idx = -1
          /\ symtab[RelOf(sk).r_sym].isec # sk[1]
    /\ \E sk \in RelSlots : RefOf(sk).thunk_idx # -1

\* the second scan of the batch has joined
BatchJoined == pc = "scan2" /\ \A i \in DOMAIN members : tpc[i] \in {"idle", "fixed"}

\* C4: whatever the interleaving of the scanner tasks of a batch, at the join
\* of the batch the number of thunks, the thunk's offset and symbols, every
\* range_extn, the symbols' flags and registrations and the running offset are
\* those of the in-order schedule, and so is the final sh_size.
C4_ScheduleIndependent ==
    /\ BatchJoined =>
          /\ Len(thunks) = expect.thunk_idx + 1
          /\ thunks[Len(thunks)].offset = expect.thunk_offset
          /\ thunks[Len(thunks)].symbols = expect.symbols
          /\ range_extn = expect.rx
          /\ sym_flags = expect.flags
          /\ sym_thunk_idx = expect.tidx
          /\ sym_thunk_sym_idx = expect.tsidx
          /\ offset = expect.offset
    /\ Done =>
          /\ thunks[Len(thunks)].symbols = expect.symbols
          /\ range_extn = expect.rx
          /\ sh_size = expect.offset

\* a first scan that appended two symbols in the order opposite to the sorted one
C4_Witness ==
    /\ pc = "scan"
    /\ \A i \in DOMAIN members : tpc[i] \in {"idle", "done"}
    /\ c - b >= 2
    /\ Len(thunks[Len(thunks)].symbols) = 2
    /\ thunks[Len(thunks)].symbols # sort_symbols(thunks[Len(thunks)].symbols)

\* C5: after the sweep every range_extn entry with thunk_idx set has sym_idx set.
C5_SymIdxFilled ==
    Done => \A sk \in RelSlots : RefOf(sk).thunk_idx # -1 => RefOf(sk).sym_idx # -1

C5_Witness ==
    /\ Done
    /\ \E sk \in RelSlots : RefOf(sk).thunk_idx # -1 /\ RefOf(sk).sym_idx > 0
    /\ \E sk \in RelSlots : RefOf(sk).thunk_idx > 0 /\ RefOf(sk).thunk_idx < Len(thunks) - 1

\* C6: after the sweep the member sections do not overlap.
C6_NoSectionOverlap ==
    Done => \A i, j \in DOMAIN members :
                i < j => isec_offset[i] + members[i].sh_size <= isec_offset[j]

\* C7: in every state no thunk's bytes intersect the bytes of a section with an
\* assigned offset, and the final sh_size covers every such section and thunk.
C7_ThunksClearOfSections ==
    /\ \A k \in 1 .. Len(thunks) : \A s \in DOMAIN members :
          isec_offset[s] # -1 =>
              \/ thunks[k].offset + thunk_size_of(thunks[k]) <= isec_offset[s]
              \/ isec_offset[s] + members[s].sh_size <= thunks[k].offset
              \/ thunk_size_of(thunks[k]) = 0
              \/ members[s].sh_size = 0
    /\ Done =>
          /\ \A s \in DOMAIN members :
                isec_offset[s] # -1 => isec_offset[s] + members[s].sh_size <= sh_size
          /\ \A k \in 1 .. Len(thunks) :
                thunks[k].offset + thunk_size_of(thunks[k]) <= sh_size

\* the end of the layout of sections i .. m_size - 1 placed from off on
RECURSIVE aligned_end(_, _)
aligned_end(i, off) ==
    IF i >= m_size THEN off
    ELSE aligned_end(i + 1, align_to(off, Shl1(members[i].p2align)) + members[i].sh_size)

\* every call or jump targets a symbol defined in a member section, without PLT
AllCallsLocal ==
    \A sk \in RelSlots :
        needs_thunk_rel(RelOf(sk)) =>
            /\ symtab[RelOf(sk).r_sym].file
            /\ symtab[RelOf(sk).r_sym].isec # -1
            /\ ~symtab[RelOf(sk).r_sym].plt

\* every call or jump is in range under the current section offsets
AllCallsInRange ==
    \A sk \in RelSlots :
        needs_thunk_rel(RelOf(sk)) =>
            /\ isec_offset[sk[1]] # -1
            /\ is_reachable(sk[1], RelOf(sk).r_sym, RelOf(sk))

\* C8 as stated: when every call is reachable by a direct branch the sweep
\* leaves osec.thunks empty and sh_size is the aligned sum of the sections.
C8_ZeroThunks ==
    (Done /\ AllCallsLocal /\ AllCallsInRange) =>
        /\ thunks = <<>>
        /\ sh_size = aligned_end(0, 0)

\* the first d-extension places every member
FitsOneExtension == aligned_end(0, 0) + max_thunk_size < max_distance

\* the end of k empty thunks laid out from off on
RECURSIVE empty_thunks_end(_, _)
empty_thunks_end(off, k) ==
    IF k = 0 THEN off
    ELSE empty_thunks_end(align_to(off, alignment) + thunk_hdr_size, k - 1)

\* C8 amended: when every call is reachable by a direct branch and the members
\* fit in one d-extension, osec.thunks holds only empty thunks (at least one, at
\* most one per member), no range_extn entry is set, and sh_size is the end of
\* the sections at their aligned offsets followed by those empty thunks.
C8_OnlyEmptyThunks ==
    (Done /\ AllCallsLocal /\ AllCallsInRange /\ FitsOneExtension) =>
        /\ Len(thunks) >= 1 /\ Len(thunks) <= m_size
        /\ \A k \in 1 .. Len(thunks) : thunks[k].symbols = <<>>
        /\ \A sk \in RelSlots : RefOf(sk) = NoRef
        /\ sh_size = empty_thunks_end(aligned_end(0, 0), Len(thunks))

C8_Witness ==
    /\ Done /\ AllCallsLocal /\ AllCallsInRange /\ FitsOneExtension
    /\ m_size >= 2
    /\ Len(thunks) >= 2
    /\ \A s \in DOMAIN members : \E sk \in RelSlots : sk[1] = s /\ IsCall(sk)
    /\ sh_size # aligned_end(0, 0)

\* the thunks some relocation is routed through
ReferencedThunks == {RefOf(sk).thunk_idx : sk \in RelSlots} \ {-1}

\* C9 as stated: upon termination the symbols of every thunk some relocation is
\* routed through still carry thunk_idx and thunk_sym_idx pointing at it.
C9_ReferencedThunksAlive ==
    Done => \A t \in ReferencedThunks :
                \A k \in 1 .. Len(thunks[t + 1].symbols) :
                    /\ sym_thunk_idx[thunks[t + 1].symbols[k]] = t
                    /\ sym_thunk_sym_idx[thunks[t + 1].symbols[k]] = k - 1

\* C9 amended: upon termination every thunk has been reset (a = |thunks|) and
\* no symbol carries a registration, while every thunk a relocation is routed
\* through is still in osec.thunks and holds the relocation's symbol in the
\* recorded slot.
C9_AllResetRecordsKept ==
    Done =>
        /\ a = Len(thunks)
        /\ \A s \in Syms : sym_thunk_idx[s] = -1 /\ sym_thunk_sym_idx[s] = -1
        /\ \A sk \in RelSlots :
              RefOf(sk).thunk_idx # -1 =>
                  /\ RefOf(sk).thunk_idx < Len(thunks)
                  /\ RefOf(sk).sym_idx < Len(thunks[RefOf(sk).thunk_idx + 1].symbols)
                  /\ thunks[RefOf(sk).thunk_idx + 1].symbols[RefOf(sk).sym_idx + 1]
                       = RelOf(sk).r_sym

C9_Witness ==
    /\ Done
    /\ \E sk \in RelSlots : RefOf(sk).thunk_idx = Len(thunks) - 1
    /\ \E sk \in RelSlots : RefOf(sk).thunk_idx = 0
    /\ Len(thunks) >= 2

\* the symbols registered in a thunk that has not been reset
InLiveThunk(s) == \E k \in a + 1 .. Len(thunks) : InSeq(s, thunks[k].symbols)

\* C10: at termination every symbol that is not in a live thunk has flags 0 and
\* thunk_idx = thunk_sym_idx = -1.
C10_ScratchCleared ==
    Done => \A s \in Syms :
                ~InLiveThunk(s) =>
                    /\ sym_flags[s] = 0
                    /\ sym_thunk_idx[s] = -1
                    /\ sym_thunk_sym_idx[s] = -1

C10_Witness ==
    /\ Done
    /\ \A s \in Syms : \E k \in 1 .. Len(thunks) : InSeq(s, thunks[k].symbols)
    /\ \E s \in Syms : \E k, l \in 1 .. Len(thunks) :
          k # l /\ InSeq(s, thunks[k].symbols) /\ InSeq(s, thunks[l].symbols)

\* C11: in every state osec.thunks is ordered by offset, each thunk's thunk_idx is
\* its position in osec.thunks, and each thunk's offset is a multiple of the
\* thunk alignment.
C11_ThunksOrdered ==
    /\ \A i, j \in 1 .. Len(thunks) : i < j => thunks[i].offset <= thunks[j].offset
    /\ \A i \in 1 .. Len(thunks) :
          /\ thunks[i].thunk_idx = i - 1
          /\ thunks[i].offset % alignment = 0

C11_Witness ==
    /\ pc = "scan"
    /\ Len(thunks) >= 3
    /\ thunks[1].offset < thunks[2].offset
    /\ thunks[2].offset < thunks[3].offset
    /\ \E k \in 1 .. Len(thunks) - 1 : thunks[k].symbols # <<>>
    /\ \E i \in DOMAIN members : isec_offset[i] % alignment # 0

\* the d-extension, the c-extension or the retirement loop has just ended
AfterExtendD == pc = "extend_c"

AfterExtendC == pc = "retire"

AfterRetire == pc = "alloc"

\* C12, the order of the indices: at the end of the d-extension, the
\* c-extension and the retirement of every iteration a <= b <= c <= d (c is
\* the end of the last batch, b itself, until the c-extension has run), and
\* every section of the batch [b, c) has an assigned offset.
C12_IndicesOrdered ==
    /\ AfterExtendD => (a <= b /\ b <= d)
    /\ (AfterExtendC \/ AfterRetire) =>
          /\ a <= b /\ b <= c /\ c <= d
          /\ \A i \in DOMAIN members : (b <= i /\ i < c) => isec_offset[i] # -1

\* C12, the monotonicity of the indices: no step decreases a, b, c or d.
C12_IndicesMonotone ==
    [][a' >= a /\ b' >= b /\ c' >= c /\ d' >= d]_vars

\* the function has returned, by line 171 or by line 265
Terminated == pc \in {"done", "returned"}

\* C13 as stated: whatever the member list, the sweep cannot stop before it has
\* set sh_size (line 264).
C13_AlwaysSetsSize == Done \/ ENABLED Next

\* C13 amended: the sweep terminates; b changes only at the end of an iteration
\* and then grows, one thunk is created per iteration and at most one per
\* member; a non-empty member list ends with b = |members| and sh_size set to
\* the running offset, an empty one returns at once and leaves sh_size alone.
C13_Terminates ==
    /\ <>Terminated
    /\ [](Len(thunks) <= m_size)
    /\ [](Done => (m_size > 0 /\ b = m_size /\ Len(thunks) >= 1 /\ sh_size = offset))
    /\ [](pc = "returned" => (m_size = 0 /\ thunks = <<>> /\ sh_size = 0))
    /\ [][b' # b => (pc = "scan2" /\ b' > b /\ b' <= m_size)]_vars
    /\ [][thunks' # thunks /\ pc = "alloc" => Len(thunks') = Len(thunks) + 1]_vars
    /\ [][pc = "scan2" /\ pc' # "scan2" => Len(thunks) <= b']_vars

C13_Witness ==
    /\ Done
    /\ m_size = MaxMembers
    /\ Len(thunks) >= 2
    /\ Len(thunks) < m_size

\* the number of positions of seq that hold x
RECURSIVE CountIn(_, _)
CountIn(x, seq) ==
    IF seq = <<>> THEN 0
    ELSE (IF Head(seq) = x THEN 1 ELSE 0) + CountIn(x, Tail(seq))

\* the thunk of the batch being scanned
CurThunk == thunks[Len(thunks)]

\* the scanner tasks that won the exchange on s and have yet to append it
PendingPush(s) ==
    {i \in DOMAIN members :
        tpc[i] = "push" /\ members[i].rels[ti[i] + 1].r_sym = s}

\* some relocation of the batch [b, c) needs a thunk for s
BatchNeedsThunk(s) ==
    \E sk \in RelSlots :
        /\ b <= sk[1] /\ sk[1] < c
        /\ RelOf(sk).r_sym = s
        /\ IsCall(sk)
        /\ ~is_reachable(sk[1], s, RelOf(sk))

\* every task of the first scan has returned and the thunk is not yet frozen
ScanJoined == pc = "scan" /\ \A i \in DOMAIN members : tpc[i] \in {"idle", "done"}

\* C14: whatever the interleaving of the tasks of a batch, a symbol is in the
\* current thunk's list at most once, counting the one task that won the
\* exchange and has yet to append; its flags are then set; at a batch start
\* flags = 0 goes with thunk_idx = -1; and when the tasks have joined, a symbol
\* without registration is in the list exactly once if a relocation of the
\* batch needs a thunk for it, and not at all otherwise.
C14_AppendedOnce ==
    /\ pc = "alloc" => \A s \in Syms : (sym_flags[s] = 0 <=> sym_thunk_idx[s] = -1)
    /\ pc = "scan" =>
          \A s \in Syms :
              /\ CountIn(s, CurThunk.symbols) + Cardinality(PendingPush(s)) <= 1
              /\ CountIn(s, CurThunk.symbols) + Cardinality(PendingPush(s)) = 1
                    => sym_flags[s] = -1 /\ sym_thunk_idx[s] = -1 /\ BatchNeedsThunk(s)
    /\ ScanJoined =>
          \A s \in Syms :
              (sym_thunk_idx[s] = -1 /\ BatchNeedsThunk(s))
                  => CountIn(s, CurThunk.symbols) = 1

C14_Witness ==
    /\ ScanJoined
    /\ \E s \in Syms :
          /\ CountIn(s, CurThunk.symbols) = 1
          /\ \E sk1, sk2 \in RelSlots :
                /\ sk1[1] # sk2[1]
                /\ b <= sk1[1] /\ sk1[1] < c /\ b <= sk2[1] /\ sk2[1] < c
                /\ RelOf(sk1).r_sym = s /\ RelOf(sk2).r_sym = s
                /\ IsCall(sk1) /\ IsCall(sk2)
                /\ RefOf(sk1).thunk_idx = Len(thunks) - 1
                /\ RefOf(sk2).thunk_idx = Len(thunks) - 1
    /\ Len(CurThunk.symbols) = 2

\* the thunk at position k of osec.thunks has been through its freeze step
Frozen(k) == k < Len(thunks) \/ pc # "scan"

\* C15: from the freeze step on and between the iterations, a symbol with
\* thunk_idx = t # -1 names an existing thunk that has not been reset (t >= a)
\* and sits in it at slot thunk_sym_idx; a frozen thunk's list is in strict
\* (file priority, sym_idx) order, so no two symbols share a slot; and the
\* symbols of the thunk just frozen have the slots 0 .. n-1 in list order.
C15_RegistrationConsistent ==
    /\ \A s \in Syms :
          sym_thunk_idx[s] # -1 =>
              /\ a <= sym_thunk_idx[s] /\ sym_thunk_idx[s] < Len(thunks)
              /\ 0 <= sym_thunk_sym_idx[s]
              /\ sym_thunk_sym_idx[s] < Len(thunks[sym_thunk_idx[s] + 1].symbols)
              /\ thunks[sym_thunk_idx[s] + 1].symbols[sym_thunk_sym_idx[s] + 1] = s
    /\ \A k \in 1 .. Len(thunks) :
          Frozen(k) =>
              \A i, j \in 1 .. Len(thunks[k].symbols) :
                  i < j => sym_less(thunks[k].symbols[i], thunks[k].symbols[j])
    /\ pc = "scan2" =>
          \A i \in 1 .. Len(CurThunk.symbols) :
              /\ sym_thunk_idx[CurThunk.symbols[i]] = Len(thunks) - 1
              /\ sym_thunk_sym_idx[CurThunk.symbols[i]] = i - 1

C15_Witness ==
    /\ pc = "scan2"
    /\ a >= 1
    /\ Len(CurThunk.symbols) = 2
    /\ \E s \in Syms : InSeq(s, thunks[1].symbols) /\ sym_thunk_idx[s] = Len(thunks) - 1
    /\ \E s \in Syms : sym_thunk_sym_idx[s] = 1

\* the task of section sk[1] has been through the relocation sk in this batch
Scanned(sk) ==
    /\ pc = "scan"
    /\ b <= sk[1] /\ sk[1] < c
    /\ (tpc[sk[1]] = "done" \/ (tpc[sk[1]] \in {"scan", "push"} /\ ti[sk[1]] >= sk[2]))

\* the thunks that have not been reset and hold s
LiveThunksOf(s) == {k \in a + 1 .. Len(thunks) : InSeq(s, thunks[k].symbols)}

\* C16: a relocation that needs a thunk for a symbol already registered gets
\* the symbol's (thunk_idx, thunk_sym_idx) and the symbol is not added to the
\* current thunk; a symbol is in the list of at most one thunk that has not
\* been reset, and of two thunks that hold it the earlier one has been reset.
C16_ReuseRegistration ==
    /\ \A sk \in RelSlots :
          (/\ Scanned(sk)
           /\ IsCall(sk)
           /\ ~is_reachable(sk[1], RelOf(sk).r_sym, RelOf(sk))
           /\ sym_thunk_idx[RelOf(sk).r_sym] # -1)
          => /\ RefOf(sk) = [thunk_idx |-> sym_thunk_idx[RelOf(sk).r_sym],
                             sym_idx   |-> sym_thunk_sym_idx[RelOf(sk).r_sym]]
             /\ RefOf(sk).thunk_idx < Len(thunks) - 1
             /\ ~InSeq(RelOf(sk).r_sym, CurThunk.symbols)
    /\ \A s \in Syms : Cardinality(LiveThunksOf(s)) <= 1
    /\ \A s \in Syms : \A j, k \in 1 .. Len(thunks) :
          (j < k /\ InSeq(s, thunks[j].symbols) /\ InSeq(s, thunks[k].symbols))
              => j <= a

\* a symbol retired with an early thunk is in the list of a later one, and a
\* section laid out behind a thunk is routed through it: its relocation found
\* the symbol registered
C16_Witness ==
    /\ \E s \in Syms : \E j, k \in 1 .. Len(thunks) :
          /\ j <= a /\ a < k
          /\ InSeq(s, thunks[j].symbols) /\ InSeq(s, thunks[k].symbols)
    /\ \E sk \in RelSlots :
          /\ RefOf(sk).thunk_idx # -1 /\ RefOf(sk).sym_idx # -1
          /\ isec_offset[sk[1]] # -1
          /\ thunks[RefOf(sk).thunk_idx + 1].offset <= isec_offset[sk[1]]

\* the call of is_reachable has returned
Returned == pc = "is_reachable_ret" /\ ret.called

\* the relocation and the symbol of the call
CallRel == members[0].rels[1]

CallSym == symtab[CallRel.r_sym]

\* the symbol is defined in a section of the caller's output section
DefinedInOsec == CallSym.isec \in DOMAIN members

\* S + A - P of the call
Distance ==
    (isec_offset[CallSym.isec] + CallSym.value) + CallRel.r_addend
        - (isec_offset[0] + CallRel.r_offset)

\* ARM32: a Thumb jump to an ARM address, or an ARM jump to a Thumb address
ModeSwitch ==
    /\ ret.E = "ARM32"
    /\ LET thumb == (isec_offset[CallSym.isec] + CallSym.value) % 2 = 1 IN
        \/ CallRel.r_type = "R_ARM_THM_JUMP24" /\ ~thumb
        \/ CallRel.r_type = "R_ARM_JUMP24" /\ thumb

\* C17: is_reachable returns true exactly when the symbol is defined in the
\* caller's output section, has no PLT, its section has an offset, the branch
\* needs no ARM/Thumb mode switch and S + A - P is in
\* [-max_distance, max_distance): -max_distance is within reach, +max_distance
\* is not, and a PLT symbol is out of reach even at distance 0.
C17_ReachableExactly ==
    Returned =>
        /\ ret.val <=>
              /\ DefinedInOsec
              /\ ~CallSym.plt
              /\ isec_offset[CallSym.isec] # -1
              /\ ~ModeSwitch
              /\ Distance \in -max_distance_of(ret.E) .. max_distance_of(ret.E) - 1
        /\ (DefinedInOsec /\ Distance = max_distance_of(ret.E)) => ~ret.val
        /\ (DefinedInOsec /\ CallSym.plt /\ Distance = 0) => ~ret.val
        /\ (/\ DefinedInOsec /\ ~CallSym.plt /\ isec_offset[CallSym.isec] # -1
            /\ ~ModeSwitch /\ Distance = -max_distance_of(ret.E)) => ret.val

C17_Witness ==
    /\ Returned
    /\ ret.val
    /\ ret.E = "ARM32"
    /\ CallRel.r_type = "R_ARM_THM_JUMP24"
    /\ DefinedInOsec
    /\ Distance = -max_distance_of(ret.E)

\* C18: the thunk created in the iteration with batch [b, c) lies at or behind
\* the end of members[c - 1], the last section of the batch.
C18_ThunkAfterBatch ==
    pc \in {"scan", "scan2"} =>
        CurThunk.offset >= isec_offset[c - 1] + members[c - 1].sh_size

\* C19: an assigned section offset (other than -1) is never changed by a later
\* step; after the initialisation only the d-extension writes an offset, that
\* of m[d]; and the offset of a thunk in osec.thunks is never changed.
C19_OffsetsWriteOnce ==
    [][/\ \A i \in DOMAIN members :
             isec_offset[i] # -1 => isec_offset'[i] = isec_offset[i]
       /\ \A i \in DOMAIN members :
             (pc # "start" /\ isec_offset'[i] # isec_offset[i])
                 => (pc = "extend_d" /\ i = d /\ isec_offset'[i] # -1)
       /\ \A k \in 1 .. Len(thunks) :
             /\ k <= Len(thunks')
             /\ thunks'[k].offset = thunks[k].offset]_vars

C19_Witness ==
    /\ Done
    /\ AllPlaced
    /\ m_size >= 3
    /\ Len(thunks) >= 2
    /\ thunks[1].offset < thunks[Len(thunks)].offset
    /\ \E i \in DOMAIN members : i > 0 /\ isec_offset[i] < thunks[1].offset
    /\ \E i \in DOMAIN members : isec_offset[i] > thunks[1].offset

\* the step retires the thunk at index a: reset_thunk(*osec.thunks[a++])
RetireStep == a' = a + 1

\* C20: a retirement leaves osec.thunks as it is (every record at its index,
\* with its offset and symbols list, hence its size), sets thunk_idx and
\* thunk_sym_idx to -1 and flags to 0 for the symbols of the retired thunk and
\* changes nothing of any other symbol, of range_extn or of the layout; no
\* step removes or moves a thunk record; and once a thunk is frozen its
\* symbols list is never modified.
C20_RetireKeepsRecord ==
    [][/\ RetireStep =>
             /\ thunks' = thunks
             /\ range_extn' = range_extn
             /\ isec_offset' = isec_offset /\ offset' = offset
             /\ \A s \in Syms :
                   IF InSeq(s, thunks[a + 1].symbols)
                   THEN /\ sym_thunk_idx'[s] = -1
                        /\ sym_thunk_sym_idx'[s] = -1
                        /\ sym_flags'[s] = 0
                   ELSE /\ sym_thunk_idx'[s] = sym_thunk_idx[s]
                        /\ sym_thunk_sym_idx'[s] = sym_thunk_sym_idx[s]
                        /\ sym_flags'[s] = sym_flags[s]
       /\ Len(thunks') >= Len(thunks)
       /\ \A k \in 1 .. Len(thunks) :
             /\ thunks'[k].thunk_idx = thunks[k].thunk_idx
             /\ thunks'[k].offset = thunks[k].offset
             /\ Frozen(k) => thunks'[k].symbols = thunks[k].symbols]_vars

\* a thunk that holds symbols was retired during the sweep, and a later batch
\* has enlisted symbols into its own thunk
C20_Witness ==
    /\ pc = "scan2"
    /\ a >= 1
    /\ thunks[1].symbols # <<>>
    /\ \A k \in 1 .. Len(thunks[1].symbols) : sym_thunk_idx[thunks[1].symbols[k]] # 0
    /\ CurThunk.symbols # <<>>
    /\ Len(thunks) >= 4

====
